---------------------------- MODULE Spec2Model ----------------------------
(***************************************************************************)
(* A model of the element tree of serde-stream-xml (src/src/element.rs):   *)
(* the value type-guessing serializer, Element equality, namespace-aware   *)
(* rendering (fmt_elem), Element::from_str, and the chunk-fed tokenizer    *)
(* that examples/json.rs drives.                                           *)
(*                                                                         *)
(* Text is a tuple of one-character strings (<<"4","2">> is "42"), so that *)
(* parsing, trimming, splitting and lower-casing are computed character by *)
(* character.  Keys and tag names are TLA+ strings.  Option<T> is a tuple  *)
(* of length at most one: None is <<>>, Some(x) is <<x>>.                  *)
(***************************************************************************)
EXTENDS Integers, Sequences, FiniteSets, TLC

VARIABLES
    pc,        \* position of the driving program
    tgKey,     \* type_guess: the key argument
    tgVal,     \* type_guess: the val argument
    mapper,    \* type_guess: the entries the map sink has received
    elem,      \* the Element under construction / being processed
    other,     \* a second Element (right-hand side of ==)
    out,       \* result of the last serialize / fmt / == / from_str call
    doc,       \* tokenizer: the whole document the caller holds
    fed,       \* tokenizer: number of characters of doc fed so far
    buf,       \* tokenizer: unconsumed input buffer
    pos,       \* tokenizer: Position (characters consumed)
    pending,   \* tokenizer: events lexed but not yet returned
    events,    \* tokenizer: events returned to the caller, in order
    last       \* tokenizer: what the last next_event returned

vars == <<pc, tgKey, tgVal, mapper, elem, other, out,
          doc, fed, buf, pos, pending, events, last>>

-----------------------------------------------------------------------------
(* Bounds of the model.                                                    *)

MaxValLen == 3
MaxChildren == 3
MaxAttrs == 1
MaxDocLen == 5

-----------------------------------------------------------------------------
(* Option<T>                                                               *)

None == <<>>
Some(x) == <<x>>

-----------------------------------------------------------------------------
(* Text helpers: what the std string functions used by element.rs do.      *)

Digit == {"0", "1", "2", "3", "4", "5", "6", "7", "8", "9"}

DigitVal(c) ==
    CASE c = "0" -> 0 [] c = "1" -> 1 [] c = "2" -> 2 [] c = "3" -> 3
      [] c = "4" -> 4 [] c = "5" -> 5 [] c = "6" -> 6 [] c = "7" -> 7
      [] c = "8" -> 8 [] c = "9" -> 9

UpperCase == <<"A","B","C","D","E","F","G","H","I","J","K","L","M",
               "N","O","P","Q","R","S","T","U","V","W","X","Y","Z">>
LowerCase == <<"a","b","c","d","e","f","g","h","i","j","k","l","m",
               "n","o","p","q","r","s","t","u","v","w","x","y","z">>

\* char::to_lowercase on the letters of the model
LowerChar(c) ==
    IF \E i \in 1..Len(UpperCase) : UpperCase[i] = c
    THEN LowerCase[CHOOSE i \in 1..Len(UpperCase) : UpperCase[i] = c]
    ELSE c

\* str::to_lowercase
to_lowercase(s) == [i \in 1..Len(s) |-> LowerChar(s[i])]

\* char::is_whitespace on the characters of the model
IsWhitespace(c) == c \in {" ", "\t", "\n", "\r"}

\* str::trim: strip leading and trailing whitespace
trim(s) ==
    LET keep == {i \in 1..Len(s) : ~IsWhitespace(s[i])}
    IN  IF keep = {} THEN <<>>
        ELSE LET lo == CHOOSE i \in keep : \A j \in keep : i <= j
                 hi == CHOOSE i \in keep : \A j \in keep : j <= i
             IN  SubSeq(s, lo, hi)

\* str::split_whitespace, collected: the maximal runs of non-whitespace
RECURSIVE split_whitespace(_)
split_whitespace(s) ==
    IF s = <<>> THEN <<>>
    ELSE IF IsWhitespace(s[1]) THEN split_whitespace(Tail(s))
    ELSE LET stops == {i \in 1..Len(s) : IsWhitespace(s[i])}
             end == IF stops = {} THEN Len(s) + 1
                    ELSE CHOOSE i \in stops : \A j \in stops : i <= j
         IN  <<SubSeq(s, 1, end - 1)>> \o split_whitespace(SubSeq(s, end, Len(s)))

IsDigits(s) == Len(s) > 0 /\ \A i \in 1..Len(s) : s[i] \in Digit

RECURSIVE StripZeros(_)
StripZeros(d) ==
    IF Len(d) > 1 /\ d[1] = "0" THEN StripZeros(Tail(d)) ELSE d

\* u64::MAX = 18446744073709551615, as decimal digits
U64MaxDigits == <<"1","8","4","4","6","7","4","4","0","7","3","7","0","9",
                  "5","5","1","6","1","5">>

\* d <= e for two digit strings of the same length
RECURSIVE DigitsLeq(_, _)
DigitsLeq(d, e) ==
    IF d = <<>> THEN TRUE
    ELSE IF DigitVal(d[1]) < DigitVal(e[1]) THEN TRUE
    ELSE IF DigitVal(d[1]) > DigitVal(e[1]) THEN FALSE
    ELSE DigitsLeq(Tail(d), Tail(e))

FitsU64(d) ==
    LET n == StripZeros(d)
    IN  \/ Len(n) < Len(U64MaxDigits)
        \/ Len(n) = Len(U64MaxDigits) /\ DigitsLeq(n, U64MaxDigits)

\* "true" and "false" as text
TextTrue == <<"t","r","u","e">>
TextFalse == <<"f","a","l","s","e">>

\* str::parse::<bool>: exactly "true" or "false"
ParsesBool(s) == s = TextTrue \/ s = TextFalse
BoolOf(s) == s = TextTrue

\* str::parse::<u64>: an optional '+', then one or more digits, within range
U64Body(s) == IF Len(s) > 0 /\ s[1] = "+" THEN Tail(s) ELSE s
ParsesU64(s) == IsDigits(U64Body(s)) /\ FitsU64(U64Body(s))
\* the parsed number, as its canonical decimal digits
U64Of(s) == StripZeros(U64Body(s))

\* str::parse::<f32>: an optional sign, then inf / infinity / nan (any case)
\* or digits with at most one '.', at least one digit, and an optional exponent
FloatBody(s) == IF Len(s) > 0 /\ s[1] \in {"+", "-"} THEN Tail(s) ELSE s
IsMantissa(m) ==
    /\ \A i \in 1..Len(m) : m[i] \in Digit \cup {"."}
    /\ Cardinality({i \in 1..Len(m) : m[i] = "."}) <= 1
    /\ \E i \in 1..Len(m) : m[i] \in Digit
IsExponent(x) == IsDigits(FloatBody(x))
IsDecimal(t) ==
    \E k \in 0..Len(t) :
        /\ IsMantissa(SubSeq(t, 1, k))
        /\ \/ k = Len(t)
           \/ /\ t[k + 1] \in {"e", "E"}
              /\ IsExponent(SubSeq(t, k + 2, Len(t)))
ParsesF32(s) ==
    LET t == FloatBody(s)
    IN  \/ to_lowercase(t) \in {<<"i","n","f">>, <<"n","a","n">>,
                                <<"i","n","f","i","n","i","t","y">>}
        \/ IsDecimal(t)

-----------------------------------------------------------------------------
(* Serialized values.  A float is kept as the literal it was parsed from:  *)
(* no property here depends on its binary value.                           *)

VBool(b) == [t |-> "bool", v |-> b]
VU64(d) == [t |-> "u64", v |-> d]
VF32(lit) == [t |-> "f32", v |-> lit]
VStr(s) == [t |-> "str", v |-> s]
VUnit == [t |-> "unit"]
VSeq(items) == [t |-> "seq", v |-> items]
VMap(n, entries) == [t |-> "map", len |-> n, v |-> entries]

\* one serialize_entry call: key, value, and the statement that made it
Entry(k, v, from) == [key |-> k, val |-> v, from |-> from]

-----------------------------------------------------------------------------
(* type_guess (element.rs 64-97): the entries it hands to the map.         *)

\* lines 84-91: the two-token "number unit" form
type_guess_unit(key, val, from) ==
    LET parts == split_whitespace(val)
    IN  IF Len(parts) = 2 /\ ParsesF32(parts[1])
        THEN <<Entry(key, VF32(parts[1]), from),
               Entry(key \o "_unit", VStr(to_lowercase(parts[2])), from)>>
        ELSE <<Entry(key, VStr(val), from)>>

type_guess_swapped(key, val, from) ==
    IF ParsesBool(val) THEN <<Entry(key, VBool(BoolOf(val)), from)>>
    ELSE IF ParsesF32(val) THEN <<Entry(key, VF32(val), from)>>
    ELSE IF ParsesU64(val) THEN <<Entry(key, VU64(U64Of(val)), from)>>
    ELSE type_guess_unit(key, val, from)

type_guess(key, val, from) ==
    IF ParsesBool(val) THEN <<Entry(key, VBool(BoolOf(val)), from)>>
    ELSE IF ParsesU64(val) THEN <<Entry(key, VU64(U64Of(val)), from)>>
    ELSE IF ParsesF32(val) THEN <<Entry(key, VF32(val), from)>>
    ELSE type_guess_unit(key, val, from)

\* type_guess_val (element.rs 99-110): one value, never the unit split
type_guess_val(val) ==
    IF ParsesU64(val) THEN VU64(U64Of(val))
    ELSE IF ParsesBool(val) THEN VBool(BoolOf(val))
    ELSE IF ParsesF32(val) THEN VF32(val)
    ELSE VStr(val)

-----------------------------------------------------------------------------
(* Element (element.rs 26-41) and its constructors.                        *)

XmlNs == "http://www.w3.org/XML/1998/namespace"
XmlnsNs == "http://www.w3.org/2000/xmlns/"

\* the two bindings Element::new inserts (lines 286-294): uri -> prefix
BasePrefixes == (XmlNs :> "xml") @@ (XmlnsNs :> "xmlns")

NoAttrs == [k \in {} |-> <<>>]

\* attrs.into_iter().map(..).collect() (lines 296-299): later triples win
RECURSIVE CollectAttrs(_, _)
CollectAttrs(attrs, map) ==
    IF attrs = <<>> THEN map
    ELSE CollectAttrs(Tail(attrs),
                      (<<attrs[1][1], attrs[1][2]>> :> attrs[1][3]) @@ map)

\* Element::new (lines 282-309)
ElementNew(name, ns, attrs) ==
    [name |-> name, ns |-> ns, attributes |-> CollectAttrs(attrs, NoAttrs),
     children |-> <<>>, prefixes |-> BasePrefixes, default_ns |-> ns]

\* the Xml node variants
ElementNode(e) == [kind |-> "ElementNode", e |-> e]
CharacterNode(s) == [kind |-> "CharacterNode", s |-> s]
CDATANode(s) == [kind |-> "CDATANode", s |-> s]
CommentNode(s) == [kind |-> "CommentNode", s |-> s]
PINode(s) == [kind |-> "PINode", s |-> s]

\* set_attribute (lines 334-341)
set_attribute(e, name, ns, value) ==
    [e EXCEPT !.attributes = (<<name, ns>> :> value) @@ @]
\* tag / tag_stay (lines 371-383)
tag_stay(e, child) == [e EXCEPT !.children = Append(@, ElementNode(child))]
\* text (lines 386-389)
text(e, s) == [e EXCEPT !.children = Append(@, CharacterNode(s))]
\* cdata (lines 392-395)
cdata(e, s) == [e EXCEPT !.children = Append(@, CDATANode(s))]
\* comment (lines 398-401)
comment(e, s) == [e EXCEPT !.children = Append(@, CommentNode(s))]
\* pi (lines 404-407)
pi(e, s) == [e EXCEPT !.children = Append(@, PINode(s))]
\* a write to the public field `ns` (line 32)
assign_ns(e, ns) == [e EXCEPT !.ns = ns]

\* ChildElements::next driven to exhaustion (lines 263-277, 358-368)
get_children(e, name, ns) ==
    LET hit(k) == k.kind = "ElementNode" /\ k.e.name = name /\ k.e.ns = ns
        hits == SelectSeq(e.children, hit)
    IN  [i \in 1..Len(hits) |-> hits[i].e]

\* get_child (lines 352-354): the first match, if any
get_child(e, name, ns) ==
    LET all == get_children(e, name, ns)
    IN  IF all = <<>> THEN None ELSE Some(all[1])

-----------------------------------------------------------------------------
(* Element::serialize (element.rs 114-179).                                *)

\* every order in which a hash map may hand out the keys in S
Perms(S) ==
    {p \in [1..Cardinality(S) -> S] :
        \A i, j \in 1..Cardinality(S) : p[i] = p[j] => i = j}

map_collect_replace(map, k, val) == (k :> <<val>>) @@ map

\* map_collect (lines 44-50)
map_collect(map, k, val) ==
    IF k \in DOMAIN map THEN [map EXCEPT ![k] = Append(@, val)]
    ELSE (k :> <<val>>) @@ map

NoGroups == [k \in {} |-> <<>>]

\* the match of lines 135-136: element children, grouped under their name
RECURSIVE CollectElements(_, _)
CollectElements(kids, map) ==
    IF kids = <<>> THEN map
    ELSE CollectElements(Tail(kids),
            IF kids[1].kind = "ElementNode"
            THEN map_collect(map, kids[1].e.name, kids[1].e)
            ELSE map)

\* lines 132, 137: the comments, in document order
CollectComments(kids) ==
    LET cs == SelectSeq(kids, LAMBDA k : k.kind = "CommentNode")
    IN  [i \in 1..Len(cs) |-> cs[i].s]

\* lines 133, 138-144: character children, trimmed, empty ones dropped;
\* every other kind of child falls to `_ => continue`
CollectTexts(kids) ==
    LET ts == SelectSeq(kids, LAMBDA k :
                  k.kind = "CharacterNode" /\ trim(k.s) # <<>>)
    IN  [i \in 1..Len(ts) |-> trim(ts[i].s)]

RECURSIVE Flatten(_)
Flatten(ss) == IF ss = <<>> THEN <<>> ELSE ss[1] \o Flatten(Tail(ss))

\* lines 155-157: one type_guess per attribute, in the map's iteration order
AttrEntries(attrs, order) ==
    Flatten([i \in 1..Len(order) |->
                type_guess(order[i][1], attrs[order[i]], "attr")])

\* lines 166-170 and 171-175: the "_comment" and "_body" entries
PluralEntry(key, strs, from) ==
    IF Len(strs) = 0 THEN <<>>
    ELSE IF Len(strs) = 1 THEN <<Entry(key, VStr(strs[1]), from)>>
    ELSE <<Entry(key, VSeq([i \in 1..Len(strs) |-> VStr(strs[i])]), from)>>

\* The set of values serialize can produce for e: one per iteration order of
\* the attribute map and of the `elements` hash map, at every level.
RECURSIVE SerializeAll(_)
SerializeAll(e) ==
    IF Cardinality(DOMAIN e.attributes) = 0 /\ Len(e.children) = 0
    THEN {VUnit}
    ELSE
    LET attr_num == Cardinality(DOMAIN e.attributes) + Len(e.children)
        elements == CollectElements(e.children, NoGroups)
        comments == CollectComments(e.children)
        texts == CollectTexts(e.children)
    IN  IF /\ Cardinality(DOMAIN elements) = 0
           /\ Len(comments) = 0
           /\ Cardinality(DOMAIN e.attributes) = 0
        THEN IF Len(texts) = 1
             THEN {type_guess_val(texts[1])}
             ELSE {VSeq([i \in 1..Len(texts) |-> VStr(texts[i])])}
        ELSE
        LET \* every way to pick one value per child element of every group
            kidVals == [n \in DOMAIN elements |->
                          [i \in 1..Len(elements[n]) |->
                              SerializeAll(elements[n][i])]]
            Picks(n) == {f \in [1..Len(elements[n]) ->
                                  UNION {kidVals[n][i] : i \in 1..Len(elements[n])}] :
                            \A i \in 1..Len(elements[n]) : f[i] \in kidVals[n][i]}
            \* lines 159-165
            GroupEntry(n, f) ==
                IF Len(elements[n]) = 1
                THEN <<Entry(n, f[1], "child")>>
                ELSE <<Entry(n, VSeq(f), "child")>>
            AllPicks == {g \in [DOMAIN elements -> UNION {Picks(n) : n \in DOMAIN elements}] :
                            \A n \in DOMAIN elements : g[n] \in Picks(n)}
        IN  {VMap(attr_num,
                  AttrEntries(e.attributes, ao)
                  \o Flatten([i \in 1..Len(go) |-> GroupEntry(go[i], g[go[i]])])
                  \o PluralEntry("_comment", comments, "comment")
                  \o PluralEntry("_body", texts, "body")) :
                ao \in Perms(DOMAIN e.attributes),
                go \in Perms(DOMAIN elements),
                g \in AllPicks}

-----------------------------------------------------------------------------
(* Parts of the state a specification does not use.                        *)

NoOut == [k |-> "none"]
GuessIdle == tgKey = "" /\ tgVal = <<>> /\ mapper = <<>>
ElemIdle == elem = ElementNew("", None, <<>>) /\ other = ElementNew("", None, <<>>)
TokIdle ==
    /\ doc = <<>> /\ fed = 0 /\ buf = <<>> /\ pos = 0
    /\ pending = <<>> /\ events = <<>> /\ last = "none"

guessVars == <<tgKey, tgVal, mapper>>
tokVars == <<doc, fed, buf, pos, pending, events, last>>

-----------------------------------------------------------------------------
(* SpecGuess: calls of type_guess on a fresh map.                          *)

GuessAlphabet == {"7", ".", " ", "M", "e", "+"}

\* all texts over A of length at most n
TextsUpTo(A, n) == UNION {[1..k -> A] : k \in 0..n}

\* the values of the tests (lines 496-551) and further literals
GuessSamples ==
    { TextTrue, TextFalse, <<"T","r","u","e">>,
      <<"4","2",".","5">>, <<"2","0","0"," ","M","G">>,
      <<"1","0","0"," ","M","g">>, <<"a","b","c"," ","M","G">>,
      <<"A","s","p","i","r","i","n">>, <<"7"," ","M"," ","M">>,
      <<"t","r","u","e"," ","M">>, <<"7","\t","\n","M">>,
      <<"i","n","f">>, <<"-","N","a","N">>, <<"-","7">>, <<"0","0","7">>,
      U64MaxDigits, <<"1","8","4","4","6","7","4","4","0","7","3","7","0","9",
                      "5","5","1","6","1","6">> }

GuessVals == TextsUpTo(GuessAlphabet, MaxValLen) \cup GuessSamples
GuessKeys == {"dose", "name"}

InitGuess ==
    /\ pc = "idle"
    /\ GuessIdle /\ ElemIdle /\ TokIdle
    /\ out = NoOut

\* one call type_guess(key, val, &mut map) on an empty map
TypeGuess(key, val) ==
    /\ pc = "idle"
    /\ tgKey' = key
    /\ tgVal' = val
    /\ mapper' = mapper \o type_guess(key, val, "attr")
    /\ pc' = "guessed"
    /\ UNCHANGED <<elem, other, out, tokVars>>

NextGuess == \E key \in GuessKeys, val \in GuessVals : TypeGuess(key, val)

SpecGuess == InitGuess /\ [][NextGuess]_vars

\* the (key, value) pairs the map received
Pairs(entries) == [i \in 1..Len(entries) |-> <<entries[i].key, entries[i].val>>]

(* C3: type_guess tries bool, then u64, then f32 and emits one entry under  *)
(* key with the first type that parses; failing all, a value that splits    *)
(* on whitespace into exactly two tokens whose first parses as f32 yields   *)
(* two entries (the number under key, the lower-cased second token under    *)
(* key_unit); anything else yields one entry holding val unchanged as a     *)
(* string.  Every call ends with entries, never with an error.              *)
C3_TypeGuessOrder ==
    pc = "guessed" =>
        LET parts == split_whitespace(tgVal)
            got == Pairs(mapper)
        IN  IF ParsesBool(tgVal)
            THEN got = << <<tgKey, VBool(tgVal = TextTrue)>> >>
            ELSE IF ParsesU64(tgVal)
            THEN got = << <<tgKey, VU64(U64Of(tgVal))>> >>
            ELSE IF ParsesF32(tgVal)
            THEN got = << <<tgKey, VF32(tgVal)>> >>
            ELSE IF Len(parts) = 2 /\ ParsesF32(parts[1])
            THEN got = << <<tgKey, VF32(parts[1])>>,
                          <<tgKey \o "_unit", VStr(to_lowercase(parts[2]))>> >>
            ELSE got = << <<tgKey, VStr(tgVal)>> >>

\* "200 MG" under "dose" became 200 and dose_unit = "mg"
C3_Witness ==
    /\ pc = "guessed"
    /\ tgKey = "dose"
    /\ tgVal = <<"2","0","0"," ","M","G">>
    /\ Len(mapper) = 2
    /\ mapper[2].key = "dose_unit"
    /\ mapper[2].val = VStr(<<"m","g">>)

-----------------------------------------------------------------------------
(* SpecSer: a caller builds an Element with the public API and then        *)
(* serializes it.                                                          *)

SerChildPool ==
    { ElementNew("b", None, <<>>),
      text(ElementNew("b", None, <<>>), <<"7">>),
      ElementNew("c", Some("urn:u"), <<>>) }
SerTexts == { <<" ">>, <<" ", "7", " ">>, <<"7", " ", "M">> }
SerCData == { <<"x">> }
SerComments == { <<"k">> }
SerPis == { <<"p">> }
SerAttrNames == { "id", "b" }
SerAttrValues == { <<"7", " ", "M">>, <<"x">> }

InitSer ==
    /\ pc = "build"
    /\ elem = ElementNew("a", None, <<>>)
    /\ other = ElementNew("", None, <<>>)
    /\ out = NoOut
    /\ GuessIdle /\ TokIdle

RoomForChild == Len(elem.children) < MaxChildren

SerSetAttribute(name, value) ==
    /\ pc = "build"
    /\ Cardinality(DOMAIN elem.attributes \cup {<<name, None>>}) <= MaxAttrs
    /\ elem' = set_attribute(elem, name, None, value)
    /\ UNCHANGED <<pc, other, out, guessVars, tokVars>>

SerTag(child) ==
    /\ pc = "build" /\ RoomForChild
    /\ elem' = tag_stay(elem, child)
    /\ UNCHANGED <<pc, other, out, guessVars, tokVars>>

SerText(s) ==
    /\ pc = "build" /\ RoomForChild
    /\ elem' = text(elem, s)
    /\ UNCHANGED <<pc, other, out, guessVars, tokVars>>

SerCDataNode(s) ==
    /\ pc = "build" /\ RoomForChild
    /\ elem' = cdata(elem, s)
    /\ UNCHANGED <<pc, other, out, guessVars, tokVars>>

SerCommentNode(s) ==
    /\ pc = "build" /\ RoomForChild
    /\ elem' = comment(elem, s)
    /\ UNCHANGED <<pc, other, out, guessVars, tokVars>>

SerPiNode(s) ==
    /\ pc = "build" /\ RoomForChild
    /\ elem' = pi(elem, s)
    /\ UNCHANGED <<pc, other, out, guessVars, tokVars>>

\* elem.serialize(serializer): any of the values the hash orders allow
SerializeCall ==
    /\ pc = "build"
    /\ \E v \in SerializeAll(elem) : out' = [k |-> "ser", v |-> v]
    /\ pc' = "serialized"
    /\ UNCHANGED <<elem, other, guessVars, tokVars>>

NextSer ==
    \/ \E n \in SerAttrNames, v \in SerAttrValues : SerSetAttribute(n, v)
    \/ \E c \in SerChildPool : SerTag(c)
    \/ \E s \in SerTexts : SerText(s)
    \/ \E s \in SerCData : SerCDataNode(s)
    \/ \E s \in SerComments : SerCommentNode(s)
    \/ \E s \in SerPis : SerPiNode(s)
    \/ SerializeCall

SpecSer == InitSer /\ [][NextSer]_vars

\* --- notions the claims about serialize are stated with ---

Serialized == pc = "serialized" /\ out.k = "ser"
IsMap == Serialized /\ out.v.t = "map"

\* the element children of elem, in document order
ElementKids ==
    LET ks == SelectSeq(elem.children, LAMBDA k : k.kind = "ElementNode")
    IN  [i \in 1..Len(ks) |-> ks[i].e]
KidsNamed(n) == SelectSeq(ElementKids, LAMBDA e : e.name = n)
KidNames == {ElementKids[i].name : i \in 1..Len(ElementKids)}

\* the entries of the emitted object that one kind of statement made
EntriesFrom(from) == SelectSeq(out.v.v, LAMBDA en : en.from = from)

\* tag names in the order of their first appearance among the children
RECURSIVE FirstAppearance(_, _)
FirstAppearance(es, seen) ==
    IF es = <<>> THEN <<>>
    ELSE IF es[1].name \in seen THEN FirstAppearance(Tail(es), seen)
    ELSE <<es[1].name>> \o FirstAppearance(Tail(es), seen \cup {es[1].name})

\* the text fragments as the specification defines them: character and CDATA
\* children, trimmed, the empty ones dropped, in document order
SpecTextFragments ==
    LET ts == SelectSeq(elem.children, LAMBDA k :
                  k.kind \in {"CharacterNode", "CDATANode"} /\ trim(k.s) # <<>>)
    IN  [i \in 1..Len(ts) |-> trim(ts[i].s)]

RawSeq(strs) == VSeq([i \in 1..Len(strs) |-> VStr(strs[i])])

\* the single-value guess: boolean, unsigned integer, float, else string
SingleGuess(s) ==
    IF ParsesBool(s) THEN VBool(s = TextTrue)
    ELSE IF ParsesU64(s) THEN VU64(U64Of(s))
    ELSE IF ParsesF32(s) THEN VF32(s)
    ELSE VStr(s)

(* C5: when an Element serializes as an object, each distinct child tag     *)
(* name yields exactly one entry keyed by that name; the value is the       *)
(* single child's structured value when one child has the name, otherwise   *)
(* a sequence holding one structured value per such child, in document      *)
(* order.  An Element with element children always serializes as an object. *)
C5_GroupingCardinality ==
    Serialized =>
        /\ (KidNames # {} => out.v.t = "map")
        /\ IsMap =>
            LET made == EntriesFrom("child")
            IN  /\ {made[i].key : i \in 1..Len(made)} = KidNames
                /\ Len(made) = Cardinality(KidNames)
                /\ \A i \in 1..Len(made) :
                     LET kids == KidsNamed(made[i].key)
                         val == made[i].val
                     IN  IF Len(kids) = 1
                         THEN val \in SerializeAll(kids[1])
                         ELSE /\ val.t = "seq"
                              /\ Len(val.v) = Len(kids)
                              /\ \A j \in 1..Len(kids) :
                                    val.v[j] \in SerializeAll(kids[j])

\* children <b/>, <c/>, <b>7</b>: "b" holds the sequence [unit, 7] and "c" a
\* single value
C5_Witness ==
    /\ IsMap
    /\ Len(ElementKids) = 3
    /\ \E i \in 1..Len(out.v.v) :
          /\ out.v.v[i].key = "b"
          /\ out.v.v[i].val = VSeq(<<VUnit, VU64(<<"7">>)>>)
    /\ \E i \in 1..Len(out.v.v) :
          /\ out.v.v[i].key = "c"
          /\ out.v.v[i].val = VUnit

(* C6 (as claimed): the entries of the element-child groups are emitted in  *)
(* the order in which each tag name first appears among the children.       *)
C6_GroupOrderFirstAppearance ==
    IsMap =>
        LET made == EntriesFrom("child")
        IN  [i \in 1..Len(made) |-> made[i].key] = FirstAppearance(ElementKids, {})

(* C7 (as claimed): every character and every CDATA child, trimmed and      *)
(* non-empty, reaches the one sequence of text fragments that feeds the     *)
(* lone value or the "_body" entry, in document order; no non-empty CDATA   *)
(* content is lost.                                                         *)
C7_TextCollection ==
    Serialized =>
        IF out.v.t = "map"
        THEN EntriesFrom("body") = PluralEntry("_body", SpecTextFragments, "body")
        ELSE out.v.t # "unit" =>
                out.v = IF Len(SpecTextFragments) = 1
                        THEN SingleGuess(SpecTextFragments[1])
                        ELSE RawSeq(SpecTextFragments)

(* C8 (as claimed): with no attributes, no element children and no         *)
(* comments, exactly one surviving text fragment is emitted as one value    *)
(* typed by the single-value guess (never the unit split), more than one    *)
(* as the sequence of the raw texts; with no attributes and no children at  *)
(* all the unit value is emitted.                                           *)
C8_LoneText ==
    Serialized =>
        /\ ( /\ DOMAIN elem.attributes = {}
             /\ KidNames = {}
             /\ CollectComments(elem.children) = <<>> ) =>
                /\ Len(SpecTextFragments) = 1 =>
                      out.v = SingleGuess(SpecTextFragments[1])
                /\ Len(SpecTextFragments) > 1 =>
                      out.v = RawSeq(SpecTextFragments)
        /\ (DOMAIN elem.attributes = {} /\ elem.children = <<>>) => out.v = VUnit

\* no two entries of the emitted object have the same key
KeysDistinct ==
    \A i, j \in 1..Len(out.v.v) : out.v.v[i].key = out.v.v[j].key => i = j

\* as many entries are emitted as were declared to serialize_map (lines 128, 154)
DeclaredLenMet == Len(out.v.v) = out.v.len

(* C11 (as claimed): whenever serialize emits an object, no two emitted     *)
(* entries share a key, and the number of entries emitted equals the        *)
(* length declared to serialize_map, attributes.len() + children.len().     *)
C11_DistinctKeysDeclaredLength ==
    IsMap =>
        /\ out.v.len = Cardinality(DOMAIN elem.attributes) + Len(elem.children)
        /\ KeysDistinct
        /\ DeclaredLenMet

-----------------------------------------------------------------------------
(* fmt_elem (element.rs 181-248): what it writes, or that it panics.       *)
(* A write records the element it belongs to (`at`: the path of child      *)
(* indexes from the root).                                                 *)

WOpen(at, prefix, name) == [w |-> "open", at |-> at, prefix |-> prefix, name |-> name]
WXmlns(at, uri) == [w |-> "xmlns", at |-> at, uri |-> uri]
WAttr(at, prefix, name, value) ==
    [w |-> "attr", at |-> at, prefix |-> prefix, name |-> name, value |-> value]
WSelfClose(at) == [w |-> "selfclose", at |-> at]
WGt(at) == [w |-> "gt", at |-> at]
WNode(at, kind, s) == [w |-> "node", at |-> at, kind |-> kind, s |-> s]
WClose(at, prefix, name) == [w |-> "close", at |-> at, prefix |-> prefix, name |-> name]

Ok(w) == [panic |-> FALSE, w |-> w]
Panic == [panic |-> TRUE, w |-> <<>>]
\* r1 and then r2; a panic unwinds the whole rendering, whose partial text
\* is never handed to the caller
Then(r1, r2) ==
    IF r1.panic \/ r2.panic THEN Panic ELSE Ok(r1.w \o r2.w)

\* crate::escape
RECURSIVE escape(_)
escape(s) ==
    IF s = <<>> THEN <<>>
    ELSE (CASE s[1] = "&" -> <<"&","a","m","p",";">>
            [] s[1] = "<" -> <<"&","l","t",";">>
            [] s[1] = ">" -> <<"&","g","t",";">>
            [] s[1] = "'" -> <<"&","a","p","o","s",";">>
            [] OTHER -> <<s[1]>>) \o escape(Tail(s))

\* fmt::Display of a child that is not an element (line 234)
DisplayNode(k, at) ==
    WNode(at, k.kind, IF k.kind = "CharacterNode" THEN escape(k.s) ELSE k.s)

EmptyPrefixes == [u \in {} |-> ""]

\* lines 187-188: the inherited bindings, extended by the element's own
AllPrefixes(e, inherited) == e.prefixes @@ inherited

\* elem.ns.as_ref().map_or("", ..) (line 193)
NsKey(ns) == IF ns = None THEN "" ELSE ns[1]

\* lines 190-198: the opening tag
OpenTag(e, all, at) ==
    IF e.ns # e.default_ns
    THEN IF NsKey(e.ns) \in DOMAIN all
         THEN Ok(<<WOpen(at, Some(all[NsKey(e.ns)]), e.name)>>)
         ELSE Panic
    ELSE Ok(<<WOpen(at, None, e.name)>>)

HasXmlnsAttr(e) == \E key \in DOMAIN e.attributes : key[1] = "xmlns"

XmlnsDecl_byNs(e, parent, at) ==
    IF HasXmlnsAttr(e) THEN <<>>
    ELSE IF parent = None
    THEN IF e.ns # None THEN <<WXmlns(at, e.ns[1])>> ELSE <<>>
    ELSE IF parent[1].default_ns # e.ns
    THEN <<WXmlns(at, NsKey(e.ns))>>
    ELSE <<>>

\* lines 200-215: the default-namespace declaration
XmlnsDecl(e, parent, at) ==
    IF HasXmlnsAttr(e) THEN <<>>
    ELSE IF parent = None
    THEN IF e.default_ns # None THEN <<WXmlns(at, e.default_ns[1])>> ELSE <<>>
    ELSE IF parent[1].default_ns # e.default_ns
    THEN <<WXmlns(at, NsKey(e.default_ns))>>
    ELSE <<>>

\* lines 218-224: one attribute
AttrWrite(e, key, all, at) ==
    IF key[2] # None
    THEN IF key[2][1] \in DOMAIN all
         THEN Ok(<<WAttr(at, Some(all[key[2][1]]), key[1], escape(e.attributes[key]))>>)
         ELSE Panic
    ELSE Ok(<<WAttr(at, None, key[1], escape(e.attributes[key]))>>)

RECURSIVE AttrWrites(_, _, _, _)
AttrWrites(e, order, all, at) ==
    IF order = <<>> THEN Ok(<<>>)
    ELSE Then(AttrWrite(e, order[1], all, at), AttrWrites(e, Tail(order), all, at))

CloseTag_unprefixed(e, all, at) == Ok(<<WClose(at, None, e.name)>>)

\* lines 237-244: the closing tag; elem.ns.as_ref().unwrap() panics on None
CloseTag(e, all, at) ==
    IF e.ns # e.default_ns
    THEN IF e.ns = None THEN Panic
         ELSE IF e.ns[1] \in DOMAIN all
         THEN Ok(<<WClose(at, Some(all[e.ns[1]]), e.name)>>)
         ELSE Panic
    ELSE Ok(<<WClose(at, None, e.name)>>)

\* Every outcome of fmt_elem(e, parent, inherited, f): one per iteration
\* order of the attribute maps.
RECURSIVE FmtAll(_, _, _, _), FmtKids(_, _, _, _)
FmtAll(e, parent, inherited, at) ==
    LET all == AllPrefixes(e, inherited)
        open == OpenTag(e, all, at)
        head == Then(open, Ok(XmlnsDecl(e, parent, at)))
        bodies ==
            IF e.children = <<>> THEN {Ok(<<WSelfClose(at)>>)}
            ELSE {Then(Ok(<<WGt(at)>>), Then(ks, CloseTag(e, all, at))) :
                     ks \in FmtKids(e, all, at, 1)}
    IN  IF open.panic THEN {Panic}
        ELSE {Then(head, Then(AttrWrites(e, ao, all, at), body)) :
                 ao \in Perms(DOMAIN e.attributes), body \in bodies}

\* lines 231-236: the children from the i-th on
FmtKids(e, all, at, i) ==
    IF i > Len(e.children) THEN {Ok(<<>>)}
    ELSE LET k == e.children[i]
             first == IF k.kind = "ElementNode"
                      THEN FmtAll(k.e, Some(e), all, Append(at, i))
                      ELSE {Ok(<<DisplayNode(k, at)>>)}
         IN  {Then(r1, r2) : r1 \in first, r2 \in FmtKids(e, all, at, i + 1)}

\* impl Display for Element (lines 250-254)
DisplayAll(e) == FmtAll(e, None, EmptyPrefixes, <<>>)

-----------------------------------------------------------------------------
(* An Element as the tree builder leaves it for a start tag (the builder   *)
(* is crate::element_builder; this follows the design's sections 3, 4.2).  *)

UriText == ("urn:u" :> <<"u","r","n",":","u">>) @@ ("urn:v" :> <<"u","r","n",":","v">>)

\* <[prefix:]name [xmlns='d'] [xmlns:p='uri' ...]> under the inherited default
\* namespace and prefix bindings; decls and bindings map prefix to uri
BuilderStart(name, prefix, xmlnsDecl, decls, inheritedDefault, bindings) ==
    LET default == IF xmlnsDecl = None THEN inheritedDefault ELSE xmlnsDecl
        scope == decls @@ bindings
        declAttrs == [k \in {<<q, Some(XmlnsNs)>> : q \in DOMAIN decls} |->
                          UriText[decls[k[1]]]]
        xmlnsAttr == IF xmlnsDecl = None THEN NoAttrs
                     ELSE (<<"xmlns", None>> :> UriText[xmlnsDecl[1]])
        own == [u \in {decls[q] : q \in DOMAIN decls} |->
                   CHOOSE q \in DOMAIN decls : decls[q] = u]
    IN  [name |-> name,
         ns |-> IF prefix = None THEN default ELSE Some(scope[prefix[1]]),
         attributes |-> xmlnsAttr @@ declAttrs,
         children |-> <<>>,
         prefixes |-> own @@ BasePrefixes,
         default_ns |-> default]

NoDecls == [q \in {} |-> ""]

-----------------------------------------------------------------------------
(* SpecFmt: a caller holds an Element (made with Element::new or by the    *)
(* builder), edits it through the public API and renders it.               *)

MaxFmtKids == 2

FmtRoots ==
    { ElementNew("a", None, <<>>),
      ElementNew("a", Some("urn:u"), <<>>),
      \* <a xmlns:p='urn:v'>
      BuilderStart("a", None, None, ("p" :> "urn:v"), None, NoDecls),
      \* <a xmlns='urn:u'>
      BuilderStart("a", None, Some("urn:u"), NoDecls, None, NoDecls) }

FmtAssignable == { None, Some("urn:v"), Some(XmlNs) }

FmtAttrs == { <<"xmlns", None>>, <<"lang", Some(XmlNs)>>, <<"id", Some("urn:v")>> }
FmtAttrValues == { <<"&">> }

FmtChildPool ==
    { ElementNew("b", None, <<>>),
      ElementNew("b", Some("urn:u"), <<>>),
      \* b.ns = Some(xml namespace): bound by b's own prefixes
      text(assign_ns(ElementNew("b", None, <<>>), Some(XmlNs)), <<"<">>),
      \* b.ns = Some("urn:v"): bound only if an ancestor binds it
      text(assign_ns(ElementNew("b", Some("urn:u"), <<>>), Some("urn:v")), <<"x">>),
      \* <q:b xmlns:q='urn:v'> under a parent that may bind urn:v to p
      BuilderStart("b", Some("q"), None, ("q" :> "urn:v"), None, ("p" :> "urn:v")),
      \* <b xmlns='urn:u'>
      BuilderStart("b", None, Some("urn:u"), NoDecls, None, NoDecls) }

InitFmt ==
    /\ pc = "build"
    /\ elem \in FmtRoots
    /\ other = ElementNew("", None, <<>>)
    /\ out = NoOut
    /\ GuessIdle /\ TokIdle

\* elem.ns = ns
FmtAssignNs(ns) ==
    /\ pc = "build"
    /\ elem' = assign_ns(elem, ns)
    /\ UNCHANGED <<pc, other, out, guessVars, tokVars>>

FmtSetAttribute(key, value) ==
    /\ pc = "build"
    /\ Cardinality(DOMAIN elem.attributes \cup {key}) <= MaxAttrs
    /\ elem' = set_attribute(elem, key[1], key[2], value)
    /\ UNCHANGED <<pc, other, out, guessVars, tokVars>>

FmtTag(child) ==
    /\ pc = "build" /\ Len(elem.children) < MaxFmtKids
    /\ elem' = tag_stay(elem, child)
    /\ UNCHANGED <<pc, other, out, guessVars, tokVars>>

FmtText(s) ==
    /\ pc = "build" /\ Len(elem.children) < MaxFmtKids
    /\ elem' = text(elem, s)
    /\ UNCHANGED <<pc, other, out, guessVars, tokVars>>

\* format!("{}", elem)
Render ==
    /\ pc = "build"
    /\ \E r \in DisplayAll(elem) : out' = [k |-> "fmt", r |-> r]
    /\ pc' = "rendered"
    /\ UNCHANGED <<elem, other, guessVars, tokVars>>

NextFmt ==
    \/ \E ns \in FmtAssignable : FmtAssignNs(ns)
    \/ \E key \in FmtAttrs, v \in FmtAttrValues : FmtSetAttribute(key, v)
    \/ \E c \in FmtChildPool : FmtTag(c)
    \/ FmtText(<<"x">>)
    \/ Render

SpecFmt == InitFmt /\ [][NextFmt]_vars

\* --- notions the claims about rendering are stated with ---

Rendered == pc = "rendered" /\ out.k = "fmt"
Completed == Rendered /\ ~out.r.panic

\* the elements of the tree, by path: the root and its element children
FmtPaths ==
    {<<>>} \cup {<<i>> : i \in {j \in 1..Len(elem.children) :
                                    elem.children[j].kind = "ElementNode"}}
NodeAt(p) == IF p = <<>> THEN elem ELSE elem.children[p[1]].e
ParentOf(p) == IF p = <<>> THEN None ELSE Some(elem)

\* the bindings in scope at p: the ancestors', extended by the element's own
ScopeAt(p) ==
    LET own == NodeAt(p).prefixes
        inherited == IF p = <<>> THEN EmptyPrefixes ELSE elem.prefixes
    IN  [u \in DOMAIN own \cup DOMAIN inherited |->
            IF u \in DOMAIN own THEN own[u] ELSE inherited[u]]

WritesAt(p, kind) == SelectSeq(out.r.w, LAMBDA x : x.w = kind /\ x.at = p)

(* C9 (as claimed): an element gets an xmlns declaration exactly when it    *)
(* has no attribute named xmlns and either it has no parent and its         *)
(* namespace is non-empty, or its namespace differs from its parent's       *)
(* default namespace.                                                       *)
C9_DeclByNamespace ==
    Completed =>
        \A p \in FmtPaths :
            LET e == NodeAt(p)
                par == ParentOf(p)
                need == /\ ~HasXmlnsAttr(e)
                        /\ \/ par = None /\ e.ns # None
                           \/ par # None /\ e.ns # par[1].default_ns
            IN  Len(WritesAt(p, "xmlns")) = (IF need THEN 1 ELSE 0)

(* C9 (amended): whenever rendering completes, an element gets an           *)
(* xmlns='<uri>' declaration, with <uri> its default namespace, exactly     *)
(* when it has no attribute named xmlns and either it has no parent and     *)
(* its default namespace is non-empty, or it has a parent and its default   *)
(* namespace differs from the parent's default namespace.                   *)
C9_DeclByDefaultNamespace ==
    Completed =>
        \A p \in FmtPaths :
            LET e == NodeAt(p)
                par == ParentOf(p)
                need == /\ ~HasXmlnsAttr(e)
                        /\ \/ par = None /\ e.default_ns # None
                           \/ par # None /\ e.default_ns # par[1].default_ns
            IN  WritesAt(p, "xmlns") =
                    (IF need THEN <<WXmlns(p, NsKey(e.default_ns))>> ELSE <<>>)

\* a root whose namespace is not its default namespace and gets no
\* declaration, with a child that declares its own default namespace
C9_Witness ==
    /\ Completed
    /\ elem.ns # elem.default_ns
    /\ elem.ns # None
    /\ elem.default_ns = None
    /\ ~HasXmlnsAttr(elem)
    /\ WritesAt(<<>>, "xmlns") = <<>>
    /\ \E p \in FmtPaths :
          /\ p # <<>>
          /\ WritesAt(p, "xmlns") = <<WXmlns(p, "urn:u")>>

(* C10: an element's tag carries a prefix only if its namespace differs     *)
(* from its default namespace, and is unprefixed otherwise; the prefix is   *)
(* the one bound in the ancestors' bindings extended by the element's own;  *)
(* a missing binding makes rendering panic; an element with children gets   *)
(* a closing tag with the qualified name of its opening tag.                *)
C10_TagPrefix ==
    Rendered =>
        /\ (\E p \in FmtPaths :
               /\ NodeAt(p).ns # NodeAt(p).default_ns
               /\ NsKey(NodeAt(p).ns) \notin DOMAIN ScopeAt(p)) => out.r.panic
        /\ ~out.r.panic =>
            \A p \in FmtPaths :
                LET e == NodeAt(p)
                    opens == WritesAt(p, "open")
                    closes == WritesAt(p, "close")
                IN  /\ Len(opens) = 1
                    /\ opens[1].name = e.name
                    /\ opens[1].prefix =
                          (IF e.ns = e.default_ns THEN None
                           ELSE Some(ScopeAt(p)[NsKey(e.ns)]))
                    /\ IF e.children = <<>>
                       THEN closes = <<>> /\ Len(WritesAt(p, "selfclose")) = 1
                       ELSE /\ Len(closes) = 1
                            /\ closes[1].prefix = opens[1].prefix
                            /\ closes[1].name = opens[1].name
                            /\ WritesAt(p, "selfclose") = <<>>

\* a child in namespace urn:v with a text child, rendered <p:b>..</p:b> with
\* the prefix its parent binds
C10_Witness ==
    /\ Completed
    /\ \E p \in FmtPaths :
          /\ p # <<>>
          /\ NodeAt(p).ns = Some("urn:v")
          /\ "urn:v" \notin DOMAIN NodeAt(p).prefixes
          /\ NodeAt(p).children # <<>>
          /\ WritesAt(p, "open") = <<WOpen(p, Some("p"), "b")>>
          /\ WritesAt(p, "close") = <<WClose(p, Some("p"), "b")>>

-----------------------------------------------------------------------------
(* Element equality: #[derive(PartialEq)] on Element (element.rs 26-41)    *)
(* compares every field, and Vec<Xml> compares the children pairwise.      *)

\* remove_attribute (lines 345-348)
remove_attribute(e, name, ns) ==
    [e EXCEPT !.attributes =
        [k \in DOMAIN e.attributes \ {<<name, ns>>} |-> e.attributes[k]]]

RECURSIVE ElementEq_noMeta(_, _)
ElementEq_noMeta(a, b) ==
    /\ a.name = b.name
    /\ a.ns = b.ns
    /\ a.attributes = b.attributes
    /\ Len(a.children) = Len(b.children)
    /\ \A i \in 1..Len(a.children) :
          /\ a.children[i].kind = b.children[i].kind
          /\ IF a.children[i].kind = "ElementNode"
             THEN ElementEq_noMeta(a.children[i].e, b.children[i].e)
             ELSE a.children[i].s = b.children[i].s

RECURSIVE ElementEq(_, _)
ElementEq(a, b) ==
    /\ a.name = b.name
    /\ a.ns = b.ns
    /\ a.attributes = b.attributes
    /\ Len(a.children) = Len(b.children)
    /\ \A i \in 1..Len(a.children) :
          /\ a.children[i].kind = b.children[i].kind
          /\ IF a.children[i].kind = "ElementNode"
             THEN ElementEq(a.children[i].e, b.children[i].e)
             ELSE a.children[i].s = b.children[i].s
    /\ a.prefixes = b.prefixes
    /\ a.default_ns = b.default_ns

-----------------------------------------------------------------------------
(* SpecEq: two Elements are made and edited through the API, then compared *)
(* with ==.                                                                *)

MaxEqKids == 1

EqRoots ==
    { ElementNew("a", None, <<>>),
      ElementNew("a", Some("urn:u"), <<>>),
      ElementNew("b", None, <<>>),
      ElementNew("a", None, << <<"id", None, <<"x">>>> >>),
      \* <a xmlns:p='urn:v'>
      BuilderStart("a", None, None, ("p" :> "urn:v"), None, NoDecls) }

EqAssignable == { None, Some("urn:u") }
EqRemovable == { <<"p", Some(XmlnsNs)>>, <<"id", None>> }
EqKids == { CharacterNode(<<"x">>), ElementNode(ElementNew("b", None, <<>>)),
            ElementNode(assign_ns(ElementNew("b", Some("urn:u"), <<>>), None)) }

InitEq ==
    /\ pc = "build"
    /\ elem \in EqRoots
    /\ other \in EqRoots
    /\ out = NoOut
    /\ GuessIdle /\ TokIdle

\* one edit of the left (elem) or right (other) operand
EqEdit(side, e2) ==
    /\ pc = "build"
    /\ IF side = "lhs" THEN elem' = e2 /\ UNCHANGED other
                       ELSE other' = e2 /\ UNCHANGED elem
    /\ UNCHANGED <<pc, out, guessVars, tokVars>>

Operand(side) == IF side = "lhs" THEN elem ELSE other

EqAssignNs(side, ns) == EqEdit(side, assign_ns(Operand(side), ns))

EqRemoveAttribute(side, key) ==
    /\ key \in DOMAIN Operand(side).attributes
    /\ EqEdit(side, remove_attribute(Operand(side), key[1], key[2]))

EqPush(side, kid) ==
    /\ Len(Operand(side).children) < MaxEqKids
    /\ EqEdit(side, [Operand(side) EXCEPT !.children = Append(@, kid)])

\* elem == other
Compare ==
    /\ pc = "build"
    /\ out' = [k |-> "eq", v |-> ElementEq(elem, other)]
    /\ pc' = "compared"
    /\ UNCHANGED <<elem, other, guessVars, tokVars>>

NextEq ==
    \/ \E side \in {"lhs", "rhs"}, ns \in EqAssignable : EqAssignNs(side, ns)
    \/ \E side \in {"lhs", "rhs"}, key \in EqRemovable : EqRemoveAttribute(side, key)
    \/ \E side \in {"lhs", "rhs"}, kid \in EqKids : EqPush(side, kid)
    \/ Compare

SpecEq == InitEq /\ [][NextEq]_vars

Compared == pc = "compared" /\ out.k = "eq"

\* equality as the claim has it: name, namespace, attributes and children,
\* the children compared the same way
RECURSIVE SameContent(_, _)
SameContent(a, b) ==
    /\ a.name = b.name
    /\ a.ns = b.ns
    /\ DOMAIN a.attributes = DOMAIN b.attributes
    /\ \A k \in DOMAIN a.attributes : a.attributes[k] = b.attributes[k]
    /\ Len(a.children) = Len(b.children)
    /\ \A i \in 1..Len(a.children) :
          IF a.children[i].kind = "ElementNode" /\ b.children[i].kind = "ElementNode"
          THEN SameContent(a.children[i].e, b.children[i].e)
          ELSE a.children[i] = b.children[i]

(* C2 (as claimed): two Elements compare equal if and only if their name,   *)
(* namespace, attribute set and children sequence are equal; Elements that  *)
(* differ only in prefixes or default_ns compare equal.                     *)
C2_EqIgnoresMetadata ==
    Compared => (out.v <=> SameContent(elem, other))

(* C2 (amended): two Elements compare equal if and only if their name,      *)
(* namespace, attribute set, children sequence, prefix bindings and default *)
(* namespace are all equal; Elements that differ only in prefixes or only   *)
(* in default_ns compare unequal.                                           *)
C2_EqComparesAllFields ==
    Compared =>
        /\ out.v <=> (elem = other)
        /\ ( /\ SameContent(elem, other)
             /\ \/ elem.prefixes # other.prefixes
                \/ elem.default_ns # other.default_ns ) => ~out.v

\* Element::new("a", Some("urn:u")) with ns set to None against
\* Element::new("a", None): only default_ns differs, and == is false
C2_Witness ==
    /\ Compared
    /\ SameContent(elem, other)
    /\ elem.prefixes = other.prefixes
    /\ elem.default_ns # other.default_ns
    /\ out.v = FALSE

-----------------------------------------------------------------------------
(* The tokenizer (crate::parser::Parser), as the design's section 4.1      *)
(* states it: feed appends to the unconsumed input; next_event lexes one   *)
(* complete token from it, or returns None when the input ends mid-token.  *)
(* Tokens of the model: <name>, <name/>, </name>, and character data,      *)
(* which is complete once the '<' that ends it has arrived.                *)

DocAlphabet == {"<", ">", "/", "a"}
IsNameChar(c) == c \notin {"<", ">", "/"}

StartTag(name) == [ev |-> "StartTag", name |-> name]
EndTag(name) == [ev |-> "EndTag", name |-> name]
Characters(s) == [ev |-> "Characters", s |-> s]

LexNone == [k |-> "none"]
LexErr(at) == [k |-> "err", at |-> at]
LexTok(evs, n) == [k |-> "tok", evs |-> evs, n |-> n]

\* index of the first character of b from i on that is no name character,
\* or Len(b) + 1
NameEnd(b, i) ==
    LET stops == {j \in i..Len(b) : ~IsNameChar(b[j])}
    IN  IF stops = {} THEN Len(b) + 1
        ELSE CHOOSE j \in stops : \A l \in stops : j <= l

\* one token from the start of b
LexOne(b) ==
    IF b = <<>> THEN LexNone
    ELSE IF b[1] # "<"
    THEN \* character data, up to the next '<'
         LET lts == {j \in 1..Len(b) : b[j] = "<"}
         IN  IF lts = {} THEN LexNone
             ELSE LET j == CHOOSE j \in lts : \A l \in lts : j <= l
                  IN  LexTok(<<Characters(SubSeq(b, 1, j - 1))>>, j - 1)
    ELSE IF Len(b) = 1 THEN LexNone
    ELSE IF b[2] = "/"
    THEN \* </name>
         LET e == NameEnd(b, 3)
         IN  IF e > Len(b) THEN LexNone
             ELSE IF b[e] = ">" /\ e > 3
             THEN LexTok(<<EndTag(SubSeq(b, 3, e - 1))>>, e)
             ELSE LexErr(e - 1)
    ELSE IF ~IsNameChar(b[2]) THEN LexErr(1)
    ELSE \* <name> or <name/>
         LET e == NameEnd(b, 2)
         IN  IF e > Len(b) THEN LexNone
             ELSE IF b[e] = ">"
             THEN LexTok(<<StartTag(SubSeq(b, 2, e - 1))>>, e)
             ELSE IF b[e] = "/"
             THEN IF e = Len(b) THEN LexNone
                  ELSE IF b[e + 1] = ">"
                  THEN LexTok(<<StartTag(SubSeq(b, 2, e - 1)),
                                EndTag(SubSeq(b, 2, e - 1))>>, e + 1)
                  ELSE LexErr(e)
             ELSE LexErr(e - 1)

\* what next_event hands back: Some(Ok((event, position))) or Some(Err(..))
OkEvent(ev, at) == [r |-> "Ok", ev |-> ev, pos |-> at]
ErrEvent(at) == [r |-> "Err", pos |-> at]

FeedBuffer_replace(b, chunk) == chunk

\* feed / feed_str: append the chunk to the unconsumed input
FeedBuffer(b, chunk) == b \o chunk

\* next_event on a tokenizer holding (b, at, queue):
\* [ret: None / Some(..), and the tokenizer afterwards]
NextEventOf(b, at, queue) ==
    IF queue # <<>>
    THEN [ret |-> Some(queue[1]), buf |-> b, pos |-> at, pending |-> Tail(queue)]
    ELSE LET r == LexOne(b)
         IN  CASE r.k = "none" ->
                    [ret |-> None, buf |-> b, pos |-> at, pending |-> <<>>]
               [] r.k = "err" ->
                    [ret |-> Some(ErrEvent(at + r.at)), buf |-> b, pos |-> at,
                     pending |-> <<>>]
               [] r.k = "tok" ->
                    [ret |-> Some(OkEvent(r.evs[1], at)),
                     buf |-> SubSeq(b, r.n + 1, Len(b)),
                     pos |-> at + r.n,
                     pending |-> [i \in 1..(Len(r.evs) - 1) |->
                                     OkEvent(r.evs[i + 1], at)]]

\* `for ev in &mut p` (examples/json.rs 16-29): next_event until it returns
\* None or an error, collecting what it returned
RECURSIVE DrainAll(_, _, _)
DrainAll(b, at, queue) ==
    LET n == NextEventOf(b, at, queue)
    IN  IF n.ret = None THEN <<>>
        ELSE IF n.ret[1].r = "Err" THEN <<n.ret[1]>>
        ELSE <<n.ret[1]>> \o DrainAll(n.buf, n.pos, n.pending)

\* the whole document in one feed call, then drained
FeedWhole(d) == DrainAll(FeedBuffer(<<>>, d), 0, <<>>)

-----------------------------------------------------------------------------
(* SpecTok: the caller of examples/json.rs, for any document and any way   *)
(* of cutting it into chunks: feed a chunk, drain, feed the next.          *)

\* the document of tests::test_get_children
TestDoc == <<"<","a",">","<","b","/",">","<","c","/",">","<","b","/",">",
             "<","/","a",">">>

Docs == TextsUpTo(DocAlphabet, MaxDocLen) \cup {TestDoc}

InitTok ==
    /\ pc = "feeding"
    /\ doc \in Docs
    /\ fed = 0 /\ buf = <<>> /\ pos = 0
    /\ pending = <<>> /\ events = <<>> /\ last = "none"
    /\ out = [k |-> "tok", midToken |-> FALSE]
    /\ GuessIdle /\ ElemIdle

\* p.feed_str(&deco[fed..fed+n]) (examples/json.rs 15, 31), once the
\* previous drain has ended with None
Feed(n) ==
    /\ pc = "feeding"
    /\ last = "none"
    /\ fed + n <= Len(doc)
    /\ buf' = FeedBuffer(buf, SubSeq(doc, fed + 1, fed + n))
    /\ fed' = fed + n
    /\ last' = "fed"
    /\ UNCHANGED <<pc, tgKey, tgVal, mapper, elem, other, out, doc, pos,
                   pending, events>>

\* one turn of the draining loop (examples/json.rs 16-17, 32-33)
NextEvent ==
    /\ pc = "feeding"
    /\ last \in {"fed", "some"}
    /\ LET n == NextEventOf(buf, pos, pending)
       IN  /\ buf' = n.buf
           /\ pos' = n.pos
           /\ pending' = n.pending
           /\ events' = IF n.ret = None THEN events ELSE Append(events, n.ret[1])
           /\ last' = IF n.ret = None THEN "none"
                      ELSE IF n.ret[1].r = "Err" THEN "err" ELSE "some"
           /\ out' = IF n.ret = None /\ n.buf # <<>> /\ fed < Len(doc)
                     THEN [out EXCEPT !.midToken = TRUE] ELSE out
    /\ UNCHANGED <<pc, tgKey, tgVal, mapper, elem, other, doc, fed>>

NextTok ==
    \/ \E n \in 0..MaxDocLen : Feed(n)
    \/ NextEvent

SpecTok == InitTok /\ [][NextTok]_vars

IsPrefixOf(s, t) == Len(s) <= Len(t) /\ SubSeq(t, 1, Len(s)) = s

(* C1: for every document and every way of cutting it into chunks, feeding  *)
(* the chunks in order and draining after each feed returns, concatenated,  *)
(* the events (and the error, if any) of feeding the document in one call   *)
(* and draining; a drain that ends mid-token ends with None, not an error.  *)
C1_ChunkSplitInvariance ==
    /\ (last = "err" \/ (last = "none" /\ fed = Len(doc))) =>
            events = FeedWhole(doc)
    /\ last = "none" =>
            /\ IsPrefixOf(events, FeedWhole(doc))
            /\ \A i \in 1..Len(events) : events[i].r = "Ok"

\* a document fed in pieces, some drain having ended inside a token, with
\* every chunk fed and at least two events returned
C1_Witness ==
    /\ pc = "feeding"
    /\ last = "none"
    /\ Len(doc) > 0
    /\ fed = Len(doc)
    /\ out.midToken
    /\ Len(events) >= 2
    /\ events = FeedWhole(doc)

-----------------------------------------------------------------------------
(* Element::from_str (element.rs 410-424).  The body starts with todo!(),   *)
(* which panics; the parser and builder calls after it are never reached.   *)

from_str(data) == [k |-> "panic", msg |-> "not yet implemented"]

FromStrOk(e) == [k |-> "Ok", elem |-> e]
FromStrErr(err) == [k |-> "Err", err |-> err]

(* SpecParse: a caller parses a text with str::parse::<Element>().         *)

InitParse ==
    /\ pc = "idle"
    /\ doc \in Docs
    /\ fed = 0 /\ buf = <<>> /\ pos = 0
    /\ pending = <<>> /\ events = <<>> /\ last = "none"
    /\ out = NoOut
    /\ GuessIdle /\ ElemIdle

\* data.parse::<Element>()
FromStrCall ==
    /\ pc = "idle"
    /\ out' = from_str(doc)
    /\ pc' = "parsed"
    /\ UNCHANGED <<elem, other, guessVars, tokVars>>

NextParse == FromStrCall

SpecParse == InitParse /\ [][NextParse]_vars

\* the Element of TestDoc: a with the children b, c, b
TestElem ==
    tag_stay(tag_stay(tag_stay(ElementNew("a", None, <<>>),
                               ElementNew("b", None, <<>>)),
                      ElementNew("c", None, <<>>)),
             ElementNew("b", None, <<>>))

(* C4 (as claimed): from_str never panics; on "<a><b/><c/><b/></a>" it      *)
(* returns Ok with that element, whose get_children("b", None) are the two  *)
(* b children in document order; on input with no completed top-level       *)
(* element (the empty text, say) it returns Err(NoElement).                 *)
C4_FromStr ==
    pc = "parsed" =>
        /\ out.k # "panic"
        /\ doc = TestDoc =>
              /\ out = FromStrOk(TestElem)
              /\ get_children(out.elem, "b", None)
                    = <<ElementNew("b", None, <<>>), ElementNew("b", None, <<>>)>>
        /\ doc = <<>> => out = FromStrErr("NoElement")

=============================================================================
